---- MODULE Spec2Model ----
(***************************************************************************)
(* A model of src/track_open_prs.py: the paginated pull-request fetch      *)
(* (fetch_prs), the reviewer lookup (get_reviewers), the age computations  *)
(* (human_age, get_days_old) and the report pipeline of main.              *)
(*                                                                         *)
(* The hosting API is the environment: it holds the open and the closed    *)
(* list in server order, answers a page request with a status and a slice  *)
(* of the list, and may change between two requests.  The wall clock is    *)
(* the environment too: every datetime.now() reads its current value.      *)
(*                                                                         *)
(* Timestamps travel as strings "%Y-%m-%dT%H:%M:%SZ": fixed-width fields,  *)
(* date before time of day.  A string is modelled as the pair of its date  *)
(* field and its time-of-day field, compared field by field from the left  *)
(* as Python compares the strings.                                         *)
(*                                                                         *)
(* Left out: get_last_comment_date (the LastCommentDate column of the CSV, *)
(* read by no property below), publish_to_quip, the progress lines that    *)
(* fetch_prs prints, and the sub-second part of datetime.now() that        *)
(* strftime drops.  PR titles and URLs are modelled by the PR number.      *)
(***************************************************************************)
EXTENDS Integers, Sequences, FiniteSets, TLC

\* ------------------------------------------------------------ bounds
\* Clock ticks per day (the resolution of the modelled clock).
TicksPerDay == 2
\* The day on which a run starts.
StartDay == 40
\* Items the server returns per page (per_page, scaled down).
PerPage == 2
\* Longest list the server holds when a fetch starts.
MaxPRs == 3
\* Events of the environment during one run: a change of a server list,
\* a change of the reviewer data, an advance of the clock, a get_reviewers
\* call with a failed lookup.
MaxEvents == 1
\* Open PRs on the server when a run of main starts.
MaxOpen == 2
\* Reviews in one reviews response given to get_reviewers alone.
MaxReviews == 2

\* ------------------------------------------------- program constants
\* timedelta(days=7): the default cutoff of the closed fetch.
SinceDays == 7
\* get_days_old(...) > 30: the old-PR threshold.
OldDays == 30
\* The success status of a response.
OK == 200
\* A non-success status.
ServerError == 500

Now0 == StartDay * TicksPerDay
Statuses == {OK, ServerError}

\* ------------------------------------------------------- timestamps
\* None (a JSON null).
NoTime == <<>>

\* strftime("%Y-%m-%dT%H:%M:%SZ"): the date field, then the time field.
Fmt(t) == <<t \div TicksPerDay, t % TicksPerDay>>

\* strptime(s, "%Y-%m-%dT%H:%M:%SZ").
Parse(s) == s[1] * TicksPerDay + s[2]

\* a >= b on two timestamp strings: the first differing field decides.
StrGE(a, b) == \/ a[1] > b[1]
               \/ a[1] = b[1] /\ a[2] >= b[2]

\* a < b on two timestamp strings.
StrLT(a, b) == ~StrGE(a, b)

VARIABLES
    now,            \* the wall clock, in ticks
    events,         \* events of the environment so far
    open_src,       \* server: the open PRs, in the order the API lists them
    closed_src,     \* server: the closed PRs, in the order the API lists them
    rev_src,        \* server: PR number -> requested reviewers and reviews
    state,          \* fetch_prs: the state parameter
    since_str,      \* fetch_prs: the formatted cutoff (closed only)
    page,           \* fetch_prs: the page to request next
    prs,            \* fetch_prs: the accumulated list
    fpc,            \* fetch_prs: idle | loop | returned | raised
    ret,            \* fetch_prs: the value returned to the caller
    received,       \* history: the pages received with status 200, in order
    requested,      \* history: the page numbers requested, in order
    pc,             \* main: where the run is
    output_csv,     \* main: "--csv" in sys.argv
    open_prs,       \* main: the open list, once fetched
    closed_prs,     \* main: the closed list, once fetched
    unassigned_count, \* main: open PRs whose reviewers are "None"
    old_prs,        \* main: the tuples of the open PRs older than 30 days
    idx,            \* main: the position of the running for loop
    summary,        \* output: the summary line, once printed
    out_open,       \* output: the rows of the all-open table (or the CSV)
    out_closed,     \* output: the rows of the recently-closed table
    out_old,        \* output: the rows of the old-PR table
    classified,     \* history: per open PR, what the first loop computed
    last_call,      \* history: the last get_reviewers call of main
    degraded,       \* history: some get_reviewers call had a failed lookup
    rv_in,          \* get_reviewers alone: the two responses
    rv_out          \* get_reviewers alone: the result

fetchVars == <<state, since_str, page, prs, fpc, ret, received, requested>>
srcVars == <<open_src, closed_src>>
revVars == <<rev_src>>
clockVars == <<now>>
mainVars == <<pc, output_csv, open_prs, closed_prs, unassigned_count, old_prs,
              idx, summary, out_open, out_closed, out_old, classified,
              last_call, degraded>>
unitVars == <<rv_in, rv_out>>
vars == <<now, events, open_src, closed_src, rev_src,
          state, since_str, page, prs, fpc, ret, received, requested,
          pc, output_csv, open_prs, closed_prs, unassigned_count, old_prs,
          idx, summary, out_open, out_closed, out_old, classified,
          last_call, degraded, rv_in, rv_out>>

\* A value that may be absent: <<>> is absent, <<x>> is x.
Absent == <<>>
Some(x) == <<x>>

\* No list: what a caller holds when fetch_prs has not returned.
NoList == Absent

\* ---------------------------------------------------------- helpers
RECURSIVE Flatten(_)
Flatten(ss) == IF ss = <<>> THEN <<>> ELSE Head(ss) \o Flatten(Tail(ss))

Min(a, b) == IF a <= b THEN a ELSE b

\* The list the API pages for the requested state.
Src == IF state = "open" THEN open_src ELSE closed_src

\* The server's answer to page p of a list: items (p-1)*PerPage+1 .. p*PerPage.
PageOf(list, p) ==
    SubSeq(list, (p - 1) * PerPage + 1, Min(p * PerPage, Len(list)))

\* ------------------------------------------------------- fetch_prs
\* pr["closed_at"] and pr["closed_at"] >= since_str
Recent(pr, since) == pr.closed_at # NoTime /\ StrGE(pr.closed_at, since)

\* A scan that skips an item that is not recent and goes on.
RECURSIVE ScanClosedSkip(_, _, _, _)
ScanClosedSkip(data, i, acc, since) ==
    IF i > Len(data) THEN [prs |-> acc, returned |-> FALSE]
    ELSE ScanClosedSkip(data, i + 1,
                        IF Recent(data[i], since) THEN Append(acc, data[i])
                        ELSE acc, since)

\* The for loop over one page of a closed fetch, from item i on: appends
\* while the item is recent; the first that is not returns at once.
RECURSIVE ScanClosed(_, _, _, _)
ScanClosed(data, i, acc, since) ==
    IF i > Len(data) THEN [prs |-> acc, returned |-> FALSE]
    ELSE IF Recent(data[i], since)
         THEN ScanClosed(data, i + 1, Append(acc, data[i]), since)
         ELSE [prs |-> acc, returned |-> TRUE]

\* An assignment where the list should grow.
extend_replace(acc, data) == data

\* prs.extend(data)
extend(acc, data) == acc \o data

\* A page counter that stays where it is.
NextPageStuck(p) == p

\* The increment of the page counter at the end of an iteration.
NextPage(p) == p + 1

\* A non-200 response that hands the caller what was accumulated so far.
ReturnPartial ==
    /\ fpc' = "returned"
    /\ ret' = Some(prs)
    /\ UNCHANGED <<state, since_str, page, prs, received>>

\* A non-200 response: raise requests.HTTPError; the locals are gone and
\* nothing is returned.
RaiseHTTPError ==
    /\ fpc' = "raised"
    /\ UNCHANGED <<state, since_str, page, prs, ret, received>>

\* fetch_prs up to the loop: the locals, and the cutoff of a closed fetch.
FetchStart(st) ==
    /\ state' = st
    /\ prs' = <<>>
    /\ page' = 1
    /\ since_str' = IF st = "closed" THEN Fmt(now - SinceDays * TicksPerDay)
                    ELSE NoTime
    /\ fpc' = "loop"
    /\ ret' = NoList
    /\ received' = <<>>
    /\ requested' = <<>>

\* One iteration of the while loop: request the page, raise on a non-200
\* status, stop on an empty page, else accumulate (closed: up to the cutoff).
FetchPage ==
    /\ fpc = "loop"
    /\ requested' = Append(requested, page)
    /\ \E status \in Statuses :
         IF status # OK
         THEN RaiseHTTPError
         ELSE LET data == PageOf(Src, page) IN
              /\ received' = Append(received, data)
              /\ IF data = <<>>
                 THEN /\ fpc' = "returned"
                      /\ ret' = Some(prs)
                      /\ UNCHANGED <<state, since_str, page, prs>>
                 ELSE IF state = "closed"
                 THEN LET r == ScanClosed(data, 1, prs, since_str) IN
                      /\ prs' = r.prs
                      /\ IF r.returned
                         THEN /\ fpc' = "returned"
                              /\ ret' = Some(r.prs)
                              /\ page' = page
                         ELSE /\ fpc' = "loop"
                              /\ ret' = ret
                              /\ page' = NextPage(page)
                      /\ UNCHANGED <<state, since_str>>
                 ELSE /\ prs' = extend(prs, data)
                      /\ page' = NextPage(page)
                      /\ UNCHANGED <<state, since_str, fpc, ret>>
    /\ UNCHANGED <<events, clockVars, srcVars, revVars, mainVars, unitVars>>

\* ------------------------------------------------------ the server
\* A PR as the API lists it.  The title and the URL name the PR.
MkPR(n, created, closed) ==
    [number |-> n, title |-> n, html_url |-> n,
     created_at |-> created, closed_at |-> closed]

Numbers(list) == {list[i].number : i \in DOMAIN list}

PushFront(list, x) == <<x>> \o list

RemoveAt(list, i) == SubSeq(list, 1, i - 1) \o SubSeq(list, i + 1, Len(list))

\* The list being paged changes to l.
SetSrc(l) ==
    IF state = "open"
    THEN open_src' = l /\ closed_src' = closed_src
    ELSE closed_src' = l /\ open_src' = open_src

\* A PR is opened (open list) or closed (closed list) while the fetch runs:
\* it is listed first.
SrcNew ==
    /\ fpc = "loop"
    /\ events < MaxEvents
    /\ events' = events + 1
    /\ SetSrc(PushFront(Src, MkPR(MaxPRs + events + 1, Fmt(now),
                        IF state = "closed" THEN Fmt(now) ELSE NoTime)))
    /\ UNCHANGED <<clockVars, revVars, fetchVars, mainVars, unitVars>>

\* A closed PR is updated (a comment, a label) while the fetch runs: the
\* closed list is sorted by update time, so it moves to the front.
SrcBump ==
    /\ fpc = "loop"
    /\ state = "closed"
    /\ events < MaxEvents
    /\ events' = events + 1
    /\ \E i \in 2..Len(closed_src) :
         closed_src' = PushFront(RemoveAt(closed_src, i), closed_src[i])
    /\ UNCHANGED <<open_src, clockVars, revVars, fetchVars, mainVars, unitVars>>

\* A PR leaves the list while the fetch runs (an open PR is merged, a closed
\* one reopened).
SrcRemove ==
    /\ fpc = "loop"
    /\ events < MaxEvents
    /\ events' = events + 1
    /\ \E i \in 1..Len(Src) : SetSrc(RemoveAt(Src, i))
    /\ UNCHANGED <<clockVars, revVars, fetchVars, mainVars, unitVars>>

\* --------------------------------------------------- get_reviewers
Logins == {"alice", "bob"}
Teams == {"core"}
ReviewStates == {"APPROVED", "COMMENTED"}
\* review["user"] is null (the account is gone).
NoUser == "null"

\* A string of the reviewer set is the sequence of its words: <<login>>
\* for a requested reviewer, <<login, state>> for f"{login} {state}".
\* The order of the words as Python orders the strings they stand for.
WordRank(w) ==
    CASE w = "APPROVED" -> 1
      [] w = "COMMENTED" -> 2
      [] w = "None" -> 3
      [] w = "alice" -> 4
      [] w = "bob" -> 5
      [] w = "core" -> 6

\* a < b on two strings: word by word, a proper prefix first.
RECURSIVE StrLess(_, _)
StrLess(a, b) ==
    IF b = <<>> THEN FALSE
    ELSE IF a = <<>> THEN TRUE
    ELSE IF Head(a) # Head(b) THEN WordRank(Head(a)) < WordRank(Head(b))
    ELSE StrLess(Tail(a), Tail(b))

\* sorted(S) for a set of strings.
RECURSIVE SortedStrings(_)
SortedStrings(S) ==
    IF S = {} THEN <<>>
    ELSE LET m == CHOOSE x \in S : \A y \in S \ {x} : StrLess(x, y)
         IN <<m>> \o SortedStrings(S \ {m})

\* The literal "None".
NoneStr == <<<<"None">>>>

\* A requested-reviewers step that forgets the teams.
RequestedUsersOnly(resp) ==
    IF resp.req_status = OK THEN {<<u>> : u \in resp.users} ELSE {}

\* What the requested-reviewers response adds to the set.
RequestedPart(resp) ==
    IF resp.req_status = OK
    THEN {<<u>> : u \in resp.users} \cup {<<t>> : t \in resp.teams}
    ELSE {}

\* A reviews step that is skipped when the first lookup failed.
ReviewPartStrict(resp) ==
    IF resp.req_status = OK /\ resp.rev_status = OK
    THEN {<<resp.reviews[i].user, resp.reviews[i].state>> :
            i \in {j \in DOMAIN resp.reviews : resp.reviews[j].user # NoUser}}
    ELSE {}

\* What the reviews response adds to the set.
ReviewPart(resp) ==
    IF resp.rev_status = OK
    THEN {<<resp.reviews[i].user, resp.reviews[i].state>> :
            i \in {j \in DOMAIN resp.reviews : resp.reviews[j].user # NoUser}}
    ELSE {}

\* get_reviewers on the two responses: ", ".join(sorted(all)) or "None".
\* The joined string is modelled as the sequence of the joined strings.
get_reviewers(resp) ==
    LET all_reviewers == RequestedPart(resp) \cup ReviewPart(resp)
    IN IF all_reviewers # {} THEN SortedStrings(all_reviewers) ELSE NoneStr

\* The two responses for PR n, with statuses s1 and s2.
Answer(n, s1, s2) ==
    [req_status |-> s1, users |-> rev_src[n].users, teams |-> rev_src[n].teams,
     rev_status |-> s2, reviews |-> rev_src[n].reviews]

\* ------------------------------------------- human_age, get_days_old
\* human_age: (now - created).days and .seconds // 3600 (here: ticks).
human_age(created_at, t) ==
    LET delta == t - Parse(created_at)
    IN [days |-> delta \div TicksPerDay, hours |-> delta % TicksPerDay]

\* get_days_old: (now - created).days.
get_days_old(created_at, t) == (t - Parse(created_at)) \div TicksPerDay

\* ----------------------------------------------------- old_prs.sort()
\* a <= b on two old_prs tuples (created_at, title, url, reviewers): the
\* first differing component decides; the URL differs between two PRs.
TupleLE(a, b) ==
    IF a.created_at # b.created_at THEN StrLT(a.created_at, b.created_at)
    ELSE IF a.title # b.title THEN a.title < b.title
    ELSE a.html_url <= b.html_url

\* Insert x into the sorted sequence s, after the elements it does not
\* precede (the sort is stable).
RECURSIVE InsertSorted(_, _)
InsertSorted(s, x) ==
    IF s = <<>> THEN <<x>>
    ELSE IF TupleLE(Head(s), x) THEN <<Head(s)>> \o InsertSorted(Tail(s), x)
    ELSE <<x>> \o s

\* A sort that is left out.
SortTuplesNone(s) == s

\* old_prs.sort(): insertion sort, stable as Python's sort is.
RECURSIVE SortTuples(_)
SortTuples(s) ==
    IF s = <<>> THEN <<>>
    ELSE InsertSorted(SortTuples(SubSeq(s, 1, Len(s) - 1)), s[Len(s)])

\* ------------------------------------------------------------- main
\* The ghost record of one get_reviewers call.
Call(resp) == Some([resp |-> resp, result |-> get_reviewers(resp)])

Failed(resp) == resp.req_status # OK \/ resp.rev_status # OK

\* get_reviewers was called and got resp: a failed lookup is an event of
\* the environment.
Called(resp) ==
    /\ Failed(resp) => events < MaxEvents
    /\ events' = IF Failed(resp) THEN events + 1 ELSE events
    /\ last_call' = Call(resp)
    /\ degraded' = (degraded \/ Failed(resp))

\* main, line 152: open_prs = fetch_open_prs() is entered.
MainStart ==
    /\ pc = "start"
    /\ FetchStart("open")
    /\ pc' = "fetch_open"
    /\ UNCHANGED <<events, clockVars, srcVars, revVars, unitVars, output_csv, open_prs,
                   closed_prs, unassigned_count, old_prs, idx, summary,
                   out_open, out_closed, out_old, classified, last_call,
                   degraded>>

\* fetch_open_prs() returns; line 153: closed_prs = fetch_closed_prs() is
\* entered.
MainOpenFetched ==
    /\ pc = "fetch_open"
    /\ fpc = "returned"
    /\ open_prs' = ret[1]
    /\ FetchStart("closed")
    /\ pc' = "fetch_closed"
    /\ UNCHANGED <<events, clockVars, srcVars, revVars, unitVars, output_csv,
                   closed_prs, unassigned_count, old_prs, idx, summary,
                   out_open, out_closed, out_old, classified, last_call,
                   degraded>>

\* fetch_closed_prs() returns; lines 155-156 set up the first loop.
MainClosedFetched ==
    /\ pc = "fetch_closed"
    /\ fpc = "returned"
    /\ closed_prs' = ret[1]
    /\ unassigned_count' = 0
    /\ old_prs' = <<>>
    /\ idx' = 1
    /\ pc' = "process"
    /\ UNCHANGED <<events, clockVars, srcVars, revVars, unitVars, fetchVars, output_csv,
                   open_prs, summary, out_open, out_closed, out_old,
                   classified, last_call, degraded>>

\* The HTTPError of fetch_prs is caught nowhere: main ends with it.
MainFetchFailed ==
    /\ pc \in {"fetch_open", "fetch_closed"}
    /\ fpc = "raised"
    /\ pc' = "failed"
    /\ UNCHANGED <<events, clockVars, srcVars, revVars, unitVars, fetchVars, output_csv,
                   open_prs, closed_prs, unassigned_count, old_prs, idx,
                   summary, out_open, out_closed, out_old, classified,
                   last_call, degraded>>

\* The tuple appended to old_prs.
OldTuple(pr, reviewers) ==
    [created_at |-> pr.created_at, title |-> pr.title,
     html_url |-> pr.html_url, reviewers |-> reviewers]

\* Lines 159-165: one iteration of the first loop over open_prs.
ProcessPR ==
    /\ pc = "process"
    /\ idx <= Len(open_prs)
    /\ \E s1 \in Statuses, s2 \in Statuses :
         LET pr == open_prs[idx]
             resp == Answer(pr.number, s1, s2)
             reviewers == get_reviewers(resp)
             days == get_days_old(pr.created_at, now)
         IN /\ unassigned_count' = IF reviewers = NoneStr
                                   THEN unassigned_count + 1
                                   ELSE unassigned_count
            /\ old_prs' = IF days > OldDays
                          THEN Append(old_prs, OldTuple(pr, reviewers))
                          ELSE old_prs
            /\ classified' = Append(classified,
                                    [reviewers |-> reviewers, days |-> days])
            /\ Called(resp)
    /\ idx' = idx + 1
    /\ UNCHANGED <<clockVars, srcVars, revVars, unitVars, fetchVars, pc,
                   output_csv, open_prs, closed_prs, summary, out_open,
                   out_closed, out_old>>

\* Lines 169 and 193: the summary line, after the first loop.
ProcessDone ==
    /\ pc = "process"
    /\ idx > Len(open_prs)
    /\ summary' = Some([total |-> Len(open_prs),
                        no_reviewers |-> unassigned_count,
                        old |-> Len(old_prs)])
    /\ idx' = 1
    /\ pc' = "render_open"
    /\ UNCHANGED <<events, clockVars, srcVars, revVars, unitVars, fetchVars, output_csv,
                   open_prs, closed_prs, unassigned_count, old_prs, out_open,
                   out_closed, out_old, classified, last_call, degraded>>

\* Lines 175-187 (CSV) and 198-201 (Markdown): one row of the open PRs.
RenderOpenRow ==
    /\ pc = "render_open"
    /\ idx <= Len(open_prs)
    /\ \E s1 \in Statuses, s2 \in Statuses :
         LET pr == open_prs[idx]
             resp == Answer(pr.number, s1, s2)
         IN /\ out_open' = Append(out_open,
                                  [pr |-> pr,
                                   age |-> human_age(pr.created_at, now),
                                   reviewers |-> get_reviewers(resp)])
            /\ Called(resp)
    /\ idx' = idx + 1
    /\ UNCHANGED <<clockVars, srcVars, revVars, unitVars, fetchVars, pc,
                   output_csv, open_prs, closed_prs, unassigned_count, old_prs,
                   summary, out_old, out_closed, classified>>

\* Lines 216-220: with old PRs, old_prs.sort() and the old-PR table; with
\* none, the report is complete.
EnterOld ==
    IF old_prs # <<>>
    THEN old_prs' = SortTuples(old_prs) /\ pc' = "render_old"
    ELSE old_prs' = old_prs /\ pc' = "done"

\* The rows of the open PRs are written: a CSV run ends, a Markdown run
\* goes on with the closed table (line 205) or the old-PR table (line 216).
RenderOpenDone ==
    /\ pc = "render_open"
    /\ idx > Len(open_prs)
    /\ idx' = 1
    /\ IF output_csv
       THEN pc' = "done" /\ old_prs' = old_prs
       ELSE IF closed_prs # <<>>
            THEN pc' = "render_closed" /\ old_prs' = old_prs
            ELSE EnterOld
    /\ UNCHANGED <<events, clockVars, srcVars, revVars, unitVars, fetchVars, output_csv,
                   open_prs, closed_prs, unassigned_count, summary, out_open,
                   out_closed, out_old, classified, last_call, degraded>>

\* Lines 209-212: one row of the recently-closed table.
RenderClosedRow ==
    /\ pc = "render_closed"
    /\ idx <= Len(closed_prs)
    /\ \E s1 \in Statuses, s2 \in Statuses :
         LET pr == closed_prs[idx]
             resp == Answer(pr.number, s1, s2)
         IN /\ out_closed' = Append(out_closed,
                                    [pr |-> pr,
                                     days_to_close |->
                                         get_days_old(pr.created_at, now),
                                     reviewers |-> get_reviewers(resp)])
            /\ Called(resp)
    /\ idx' = idx + 1
    /\ UNCHANGED <<clockVars, srcVars, revVars, unitVars, fetchVars, pc,
                   output_csv, open_prs, closed_prs, unassigned_count, old_prs,
                   summary, out_open, out_old, classified>>

\* The closed table is written.
RenderClosedDone ==
    /\ pc = "render_closed"
    /\ idx > Len(closed_prs)
    /\ idx' = 1
    /\ EnterOld
    /\ UNCHANGED <<events, clockVars, srcVars, revVars, unitVars, fetchVars, output_csv,
                   open_prs, closed_prs, unassigned_count, summary, out_open,
                   out_closed, out_old, classified, last_call, degraded>>

\* Lines 221-223: one row of the old-PR table.
RenderOldRow ==
    /\ pc = "render_old"
    /\ idx <= Len(old_prs)
    /\ out_old' = Append(out_old,
                         [days |-> get_days_old(old_prs[idx].created_at, now),
                          tuple |-> old_prs[idx]])
    /\ idx' = idx + 1
    /\ UNCHANGED <<events, clockVars, srcVars, revVars, unitVars, fetchVars, pc,
                   output_csv, open_prs, closed_prs, unassigned_count, old_prs,
                   summary, out_open, out_closed, classified, last_call,
                   degraded>>

\* The old-PR table is written: the report is complete.
RenderOldDone ==
    /\ pc = "render_old"
    /\ idx > Len(old_prs)
    /\ pc' = "done"
    /\ UNCHANGED <<events, clockVars, srcVars, revVars, unitVars, fetchVars,
                   output_csv, open_prs, closed_prs, unassigned_count, old_prs,
                   idx, summary, out_open, out_closed, out_old, classified,
                   last_call, degraded>>

\* -------------------------------------------------- the environment
\* The wall clock advances.
Tick ==
    /\ pc \in {"process", "render_open", "render_closed", "render_old"}
    /\ events < MaxEvents
    /\ events' = events + 1
    /\ now' = now + 1
    /\ UNCHANGED <<srcVars, revVars, fetchVars, mainVars, unitVars>>

\* The reviewer data of one PR, as the server may hold it: nobody asked,
\* alice asked, alice has approved (and is no longer pending).
NoRevData == [users |-> {}, teams |-> {}, reviews |-> <<>>]

Asked == [users |-> {"alice"}, teams |-> {}, reviews |-> <<>>]

Approved == [users |-> {}, teams |-> {},
             reviews |-> <<[user |-> "alice", state |-> "APPROVED"]>>]

RevScenarios == {NoRevData, Asked, Approved}

\* What the reviewer data of a PR may become next.
RevAfter(sc) ==
    IF sc = NoRevData THEN {Asked}
    ELSE IF sc = Asked THEN {Approved}
    ELSE {}

\* A reviewer is requested, or submits a review, during the run.
RevChange ==
    /\ pc \in {"process", "render_open", "render_closed", "render_old"}
    /\ events < MaxEvents
    /\ events' = events + 1
    /\ \E n \in DOMAIN rev_src, sc \in RevScenarios :
         /\ sc \in RevAfter(rev_src[n])
         /\ rev_src' = [rev_src EXCEPT ![n] = sc]
    /\ UNCHANGED <<clockVars, srcVars, fetchVars, mainVars, unitVars>>

\* --------------------------------------------------- initial states
SeqsUpTo(S, n) == UNION {[1..k -> S] : k \in 0..n}

\* The cutoff of a closed fetch that starts at Now0.
Cutoff0 == Now0 - SinceDays * TicksPerDay

\* Closing times around the cutoff, and null.
ClosedTimes == {Fmt(Cutoff0 - 1), Fmt(Cutoff0), Fmt(Cutoff0 + 1), NoTime}

\* Creation times: one tick short of 32 days before Now0 (31 days old, 32
\* after a tick) and one tick short of 31 days before Now0 (30 days old, 31
\* after a tick).
CreatedTimes ==
    {Fmt(Now0 - ((OldDays + 2) * TicksPerDay - 1)),
     Fmt(Now0 - ((OldDays + 1) * TicksPerDay - 1))}

\* The open lists of at most n PRs: PR i at position i.
OpenLists(n, created) ==
    {[i \in DOMAIN c |-> MkPR(i, c[i], NoTime)] : c \in SeqsUpTo(created, n)}

\* The closed lists of at most n PRs, numbered from first on.
ClosedLists(n, first, closed) ==
    {[i \in DOMAIN z |-> MkPR(first + i - 1, Fmt(Cutoff0 - TicksPerDay), z[i])] :
        z \in SeqsUpTo(closed, n)}

NoResp == [req_status |-> OK, users |-> {}, teams |-> {},
           rev_status |-> OK, reviews |-> <<>>]

\* Nothing of main has run.
MainIdle(at) ==
    /\ pc = at
    /\ output_csv \in IF at = "start" THEN BOOLEAN ELSE {FALSE}
    /\ open_prs = <<>>
    /\ closed_prs = <<>>
    /\ unassigned_count = 0
    /\ old_prs = <<>>
    /\ idx = 1
    /\ summary = Absent
    /\ out_open = <<>>
    /\ out_closed = <<>>
    /\ out_old = <<>>
    /\ classified = <<>>
    /\ last_call = Absent
    /\ degraded = FALSE

\* fetch_prs has not been called.
FetchIdle ==
    /\ state = "open"
    /\ since_str = NoTime
    /\ page = 1
    /\ prs = <<>>
    /\ fpc = "idle"
    /\ ret = NoList
    /\ received = <<>>
    /\ requested = <<>>

UnitIdle == rv_in = NoResp /\ rv_out = Absent

\* A run of main: the module level has run (the token is set), the server
\* holds at most MaxOpen open PRs, each with some reviewer data, and at most
\* one closed PR, closed after the cutoff and with no reviewer yet.
Init ==
    /\ now = Now0
    /\ events = 0
    /\ open_src \in OpenLists(MaxOpen, CreatedTimes)
    /\ closed_src \in ClosedLists(1, MaxOpen + 1, {Fmt(Cutoff0 + 1)})
    /\ rev_src \in {[n \in 1..(MaxOpen + 1) |->
                       IF n <= MaxOpen THEN f[n] ELSE NoRevData] :
                     f \in [1..MaxOpen -> RevScenarios]}
    /\ FetchIdle
    /\ MainIdle("start")
    /\ UnitIdle

Next ==
    \/ MainStart
    \/ FetchPage
    \/ MainOpenFetched
    \/ MainClosedFetched
    \/ MainFetchFailed
    \/ ProcessPR
    \/ ProcessDone
    \/ RenderOpenRow
    \/ RenderOpenDone
    \/ RenderClosedRow
    \/ RenderClosedDone
    \/ RenderOldRow
    \/ RenderOldDone
    \/ Tick
    \/ RevChange

Spec == Init /\ [][Next]_vars

\* ------------------------------------------------- fetch_prs alone
\* fetch_prs(st) is entered at Now0 against a server list of at most MaxPRs
\* items; the list may change while the fetch runs.
InitFetch ==
    /\ now = Now0
    /\ events = 0
    /\ rev_src = [n \in {} |-> NoRevData]
    /\ \E st \in {"open", "closed"} :
         /\ state = st
         /\ since_str = IF st = "closed" THEN Fmt(Now0 - SinceDays * TicksPerDay)
                        ELSE NoTime
         /\ IF st = "open"
            THEN /\ open_src \in OpenLists(MaxPRs, {Fmt(Now0 - TicksPerDay),
                                                    Fmt(Cutoff0 - 1)})
                 /\ closed_src = <<>>
            ELSE /\ closed_src \in ClosedLists(MaxPRs, 1, ClosedTimes)
                 /\ open_src = <<>>
    /\ prs = <<>>
    /\ page = 1
    /\ fpc = "loop"
    /\ ret = NoList
    /\ received = <<>>
    /\ requested = <<>>
    /\ MainIdle("fetch_prs")
    /\ UnitIdle

NextFetch == FetchPage \/ SrcNew \/ SrcBump \/ SrcRemove

SpecFetch == InitFetch /\ [][NextFetch]_vars

\* The loop of fetch_prs runs on while it can: the interpreter does not stop.
FairFetch == SpecFetch /\ WF_vars(FetchPage)

\* --------------------------------------------- get_reviewers alone
Reviews == [user : Logins \cup {NoUser}, state : ReviewStates]

RevInputs ==
    [req_status : Statuses, users : SUBSET Logins, teams : SUBSET Teams,
     rev_status : Statuses, reviews : SeqsUpTo(Reviews, MaxReviews)]

InitUnit ==
    /\ now = Now0
    /\ events = 0
    /\ open_src = <<>>
    /\ closed_src = <<>>
    /\ rev_src = [n \in {} |-> NoRevData]
    /\ FetchIdle
    /\ MainIdle("get_reviewers")
    /\ rv_in \in RevInputs
    /\ rv_out = Absent

\* get_reviewers runs on the two responses.
Enrich ==
    /\ rv_out = Absent
    /\ rv_out' = Some(get_reviewers(rv_in))
    /\ UNCHANGED <<events, clockVars, srcVars, revVars, fetchVars, mainVars, rv_in>>

NextUnit == Enrich

SpecUnit == InitUnit /\ [][NextUnit]_vars

\* =========================================================== claims
\* The sequence 1, 2, ..., n.
UpTo(n) == [i \in 1..n |-> i]

\* The pages received before the last one.
Earlier(pages) == SubSeq(pages, 1, Len(pages) - 1)

\* closed_at is on or after since_date, as instants: the cutoff of the
\* fetches of SpecFetch is SinceDays days before Now0.
OnOrAfterCutoff(pr) ==
    pr.closed_at # NoTime /\ Parse(pr.closed_at) >= Now0 - SinceDays * TicksPerDay

\* The positions of a list whose item closed before the cutoff.
Stale(list) == {i \in DOMAIN list : ~OnOrAfterCutoff(list[i])}

\* The first such position, or one past the end.
FirstStale(list) ==
    IF Stale(list) = {} THEN Len(list) + 1
    ELSE CHOOSE i \in Stale(list) : \A j \in Stale(list) : i <= j

\* C1: a closed fetch returns exactly the longest prefix, in server order
\* over the concatenated pages received, of the items closed on or after the
\* cutoff; the first item closed before it ends the fetch: it lies on the
\* last page requested, and it and every later item is left out.  While the
\* fetch runs, everything received is kept.
C1_ClosedPrefix ==
    state = "closed" =>
        LET all == Flatten(received) IN
        /\ fpc = "loop" => Stale(all) = {} /\ prs = all
        /\ fpc = "returned" =>
              /\ ret = Some(SubSeq(all, 1, FirstStale(all) - 1))
              /\ Len(requested) = Len(received)
              /\ Stale(all) # {} =>
                    FirstStale(all) > Len(Flatten(Earlier(received)))

\* C1 witness: a closed fetch has returned at an item closed before the
\* cutoff, keeping the item before it and leaving out an item closed after
\* the cutoff that the server lists on a further page, never requested.
C1_Witness ==
    /\ state = "closed"
    /\ fpc = "returned"
    /\ LET all == Flatten(received) IN
       /\ Stale(all) # {}
       /\ FirstStale(all) > 1
    /\ Len(requested) = page
    /\ \E j \in DOMAIN closed_src :
         /\ j > page * PerPage
         /\ OnOrAfterCutoff(closed_src[j])
         /\ closed_src[j].number \notin Numbers(ret[1])

\* C2: an open fetch requests the pages 1, 2, 3, ... in order and returns
\* only at the first empty page; its result is the concatenation, in order,
\* of every page received, whatever the dates of the items.
C2_OpenComplete ==
    state = "open" =>
        /\ requested = UpTo(Len(requested))
        /\ \A i \in DOMAIN Earlier(received) : received[i] # <<>>
        /\ fpc = "loop" =>
              /\ prs = Flatten(received)
              /\ \A i \in DOMAIN received : received[i] # <<>>
        /\ fpc = "returned" =>
              /\ ret = Some(Flatten(received))
              /\ received # <<>>
              /\ received[Len(received)] = <<>>

\* C2 witness: an open fetch has returned more than one page of items, one
\* of them created before the cutoff of a closed fetch.
C2_Witness ==
    /\ state = "open"
    /\ fpc = "returned"
    /\ Len(ret[1]) > PerPage
    /\ \E i \in DOMAIN ret[1] :
         Parse(ret[1][i].created_at) < Now0 - SinceDays * TicksPerDay

\* The last page request got a non-success status: it is in requested and
\* no page for it in received.
LastRequestFailed == Len(requested) > Len(received)

NoOutput ==
    /\ summary = Absent
    /\ out_open = <<>>
    /\ out_closed = <<>>
    /\ out_old = <<>>

\* C3: when a page request gets a non-success status, the fetch has raised
\* and returned no list, the caller has not received the list of that
\* state, and no report output exists; and from then on nothing changes
\* that: no list is returned or assigned and no output is written.
C3_ErrorAborts ==
    /\ [](LastRequestFailed =>
            /\ fpc = "raised"
            /\ ret = NoList
            /\ pc \in {"fetch_open", "fetch_closed", "failed"}
            /\ state = "open" => open_prs = <<>>
            /\ closed_prs = <<>>
            /\ NoOutput)
    /\ [][LastRequestFailed =>
            /\ LastRequestFailed'
            /\ pc' = "failed"
            /\ UNCHANGED <<ret, open_prs, closed_prs>>]_vars

\* C3 witness: the run has failed on a later page of the open fetch, with
\* items of an earlier page accumulated and lost.
C3_Witness ==
    /\ pc = "failed"
    /\ state = "open"
    /\ LastRequestFailed
    /\ prs # <<>>
    /\ ret = NoList

LastPageEnds ==
    /\ received # <<>>
    /\ \/ received[Len(received)] = <<>>
       \/ state = "closed" /\ Stale(received[Len(received)]) # {}

\* C5: every fetch eventually finishes; it returns only on an empty page
\* or (closed) on crossing the cutoff; the page number goes up by one per
\* iteration, so the pages requested are 1, 2, ..., n, none twice.
C5_Terminates ==
    /\ <>(fpc \in {"returned", "raised"})
    /\ [](fpc = "returned" => LastPageEnds)
    /\ [](requested = UpTo(Len(requested)))
    /\ [](fpc = "loop" => page = Len(requested) + 1)

\* C5 witness: a fetch has returned after three page requests although the
\* list changed on the way.
C5_Witness ==
    /\ fpc = "returned"
    /\ Len(requested) >= 3
    /\ events > 0

\* The strings of a reviewer result: none for "None".
Entries(result) ==
    IF result = NoneStr THEN {} ELSE {result[i] : i \in DOMAIN result}

\* The strings a successful requested-reviewers response stands for.
RequestedOf(resp) == {<<u>> : u \in resp.users \cup resp.teams}

\* The strings a successful reviews response stands for.
ReviewedOf(resp) ==
    {<<r.user, r.state>> :
        r \in {resp.reviews[i] : i \in DOMAIN resp.reviews} \ 
               [user : {NoUser}, state : ReviewStates]}

\* C6: in every get_reviewers call of main, a lookup that failed adds no
\* entry and a lookup that succeeded adds all of its entries (with both
\* failed the result is "None"); a run fails only on a page fetch, never on
\* an enrichment; and a finished run has a row for every open PR (and, in
\* Markdown, for every closed PR), whatever lookups failed.
C6_BestEffort ==
    /\ last_call # Absent =>
          LET resp == last_call[1].resp
              E == Entries(last_call[1].result)
          IN /\ E = (IF resp.req_status = OK THEN RequestedOf(resp) ELSE {})
                     \cup (IF resp.rev_status = OK THEN ReviewedOf(resp) ELSE {})
             /\ (resp.req_status # OK /\ resp.rev_status # OK) =>
                   last_call[1].result = NoneStr
    /\ pc = "failed" => fpc = "raised" /\ ~degraded
    /\ pc = "done" =>
          /\ Len(out_open) = Len(open_prs)
          /\ ~output_csv => Len(out_closed) = Len(closed_prs)

\* C6 witness: a finished run in which the first enrichment of the first
\* open PR had a failed lookup and came out "None" although the PR has a
\* reviewer, and the PRs after it were processed and rendered.
C6_Witness ==
    /\ pc = "done"
    /\ degraded
    /\ Len(open_prs) >= 2
    /\ classified[1].reviewers = NoneStr
    /\ out_open[1].reviewers # NoneStr
    /\ Len(out_open) = Len(open_prs)

\* C7: for every open PR, the reviewer value the first loop used for the
\* summary counts and the old-PR tuple equals the reviewer value in the
\* PR's row.
C7_SameReviewers ==
    \A i \in DOMAIN out_open :
        out_open[i].reviewers = classified[i].reviewers

\* C8 as stated: each reviewer identity is in at most one entry and every
\* entry carries a status.
C8_KeyedByIdentity ==
    rv_out # Absent =>
        LET E == Entries(rv_out[1]) IN
        /\ \A a, b \in E : a[1] = b[1] => a = b
        /\ \A a \in E : Len(a) = 2

\* C8 amended: the result of get_reviewers lists distinct strings in sorted
\* order: the bare name (no status) of every requested user and team of a
\* successful requested-reviewers response, and "login STATE" for every
\* review with a user of a successful reviews response; two entries differ
\* as strings, not by identity.
C8_StatusQualified ==
    rv_out # Absent =>
        LET r == rv_out[1]
            E == Entries(r)
        IN /\ r # NoneStr =>
                 \A i, j \in DOMAIN r : i < j => StrLess(r[i], r[j])
           /\ \A a \in E :
                 \/ /\ Len(a) = 1
                    /\ rv_in.req_status = OK
                    /\ a[1] \in rv_in.users \cup rv_in.teams
                 \/ /\ Len(a) = 2
                    /\ rv_in.rev_status = OK
                    /\ \E i \in DOMAIN rv_in.reviews :
                          /\ rv_in.reviews[i].user = a[1]
                          /\ rv_in.reviews[i].state = a[2]
                          /\ a[1] # NoUser
           /\ rv_in.req_status = OK =>
                 \A u \in rv_in.users \cup rv_in.teams : <<u>> \in E
           /\ rv_in.rev_status = OK =>
                 \A i \in DOMAIN rv_in.reviews :
                     rv_in.reviews[i].user # NoUser =>
                         <<rv_in.reviews[i].user, rv_in.reviews[i].state>> \in E
           /\ (r = NoneStr) <=>
                 /\ rv_in.req_status = OK => rv_in.users \cup rv_in.teams = {}
                 /\ rv_in.rev_status = OK =>
                       \A i \in DOMAIN rv_in.reviews :
                           rv_in.reviews[i].user = NoUser

\* C8 witness: a result in which one login has three entries: requested,
\* and reviewed with two states.
C8_Witness ==
    /\ rv_out # Absent
    /\ \E u \in Logins :
         {<<u>>, <<u, "COMMENTED">>, <<u, "APPROVED">>} \subseteq Entries(rv_out[1])

\* The position in open_prs of the PR of an old_prs tuple.
PosOf(tuple) == CHOOSE i \in DOMAIN open_prs : open_prs[i].html_url = tuple.html_url

\* C9: the day count that put a PR on the old list is the day count its row
\* of the old-PR table shows and the days of its age in the all-open table;
\* every row of the old-PR table shows more than 30 days; and of two open
\* PRs, the one created earlier is on the old list whenever the one created
\* later is.
C9_FrozenNow ==
    /\ \A k \in DOMAIN out_old :
          /\ out_old[k].days = classified[PosOf(out_old[k].tuple)].days
          /\ out_old[k].days > OldDays
    /\ \A i \in DOMAIN out_open : out_open[i].age.days = classified[i].days
    /\ \A i, j \in DOMAIN classified :
          (Parse(open_prs[i].created_at) < Parse(open_prs[j].created_at)
             /\ classified[j].days > OldDays)
          => classified[i].days > OldDays

\* The approved reviews in a rendered reviewer value.
Approvals(reviewers) ==
    Cardinality({i \in DOMAIN reviewers :
                    Len(reviewers[i]) = 2 /\ reviewers[i][2] = "APPROVED"})

\* The old-PR table is in creation order, oldest first.
OldestFirst ==
    \A i, j \in DOMAIN out_old :
        i < j => Parse(out_old[i].tuple.created_at)
                   <= Parse(out_old[j].tuple.created_at)

\* C10 as stated: in the all-open table a PR with strictly more approved
\* reviews comes before one with fewer; the old-PR table is oldest first.
C10_ApprovalsFirst ==
    /\ \A i, j \in DOMAIN out_open :
          Approvals(out_open[i].reviewers) > Approvals(out_open[j].reviewers)
          => i < j
    /\ OldestFirst

\* C10 amended: the rows of the all-open table are the open PRs in the
\* order the fetch returned them, whatever their approvals; the rows of the
\* old-PR table are the old_prs tuples, oldest first.
C10_FetchOrder ==
    /\ \A i \in DOMAIN out_open : out_open[i].pr = open_prs[i]
    /\ \A k \in DOMAIN out_old : out_old[k].tuple = old_prs[k]
    /\ OldestFirst
    /\ pc = "done" /\ ~output_csv =>
          /\ Len(out_old) = Len(old_prs)
          /\ Len(old_prs) =
                Cardinality({i \in DOMAIN classified : classified[i].days > OldDays})

\* C10 witness: a finished Markdown run whose all-open table has a PR with
\* an approval after one without, and whose old-PR table lists a PR before
\* one the fetch returned ahead of it.
C10_Witness ==
    /\ pc = "done"
    /\ Len(out_open) >= 2
    /\ Approvals(out_open[1].reviewers) < Approvals(out_open[2].reviewers)
    /\ Len(out_old) >= 2
    /\ PosOf(out_old[1].tuple) > PosOf(out_old[2].tuple)
====
